---- MODULE Spec2Model ----
(***************************************************************************)
(* Authentication / session pipeline and lobby state machine of the        *)
(* gq-server crate (async_deckbuiledr).                                    *)
(*                                                                         *)
(* The store is SQLite behind an sqlx pool.  A transaction works on a      *)
(* private copy of the database taken at its first statement; at most one  *)
(* transaction holds the write lock; a statement that cannot get the lock  *)
(* or a pooled connection fails with a store error.  Statements run        *)
(* directly on the pool are their own transaction on another connection.   *)
(* Time is counted in minutes.                                             *)
(***************************************************************************)
EXTENDS Integers, Sequences, FiniteSets, TLC

\* ------------------------------------------------------------------ bounds
MaxTasks == 2
MaxSessions == 2
MaxKeys == 3
MaxCalls == 3
MaxUsers == 2
MaxPlayers == 2
MaxAdHoc == 2
MaxGames == 2

\* ------------------------------------------------------- program constants
ValidHours == 24
RefreshMinutes == 10
TestMaxConnections == 1
DefaultMaxConnections == 5

SessionTTL == ValidHours * 60

Task == 1..MaxTasks
Pool == 0
\* the instants the clock is read at, in minutes after the start: the last
\* minute a session of the start is not refreshed, the first minute it is, and
\* the first minute it has expired
Instants == {SessionTTL - RefreshMinutes, SessionTTL - RefreshMinutes + 1, SessionTTL + 1}

None == <<>>
Some(x) == <<x>>
Unwrap(o) == o[1]

\* ------------------------------------------------------------ session data
\* chrono / RFC 3339 text of an instant: hours and minutes
FormatTime(t) == <<t \div 60, t % 60>>

\* expires_at(): parses the "exp" claim back into an instant
expires_at(claims) == claims.exp[1] * 60 + claims.exp[2]

\* PASERK id and PASERK public key of key pair k
PaserkId(k) == <<"kid", k>>
PaserkPk(k) == <<"pk", k>>

JunkToken == [fmt |-> "junk"]

\* Session::new: a fresh key pair k signs claims {iss, exp} with footer {kid}
SessionNewStoresOtherKey(user_id, k, t) ==
    LET claims == [iss |-> user_id, exp |-> FormatTime(t + SessionTTL)]
        token == [fmt |-> "v4.public", claims |-> claims,
                  kid |-> PaserkId(k), sig |-> PaserkPk(k)]
    IN  [session |-> [user_id |-> user_id, token |-> token,
                      expires_at |-> expires_at(claims)],
         kid |-> PaserkId(k), pk |-> PaserkPk(0)]

SessionNew(user_id, k, t) ==
    LET claims == [iss |-> user_id, exp |-> FormatTime(t + SessionTTL)]
        token == [fmt |-> "v4.public", claims |-> claims,
                  kid |-> PaserkId(k), sig |-> PaserkPk(k)]
    IN  [session |-> [user_id |-> user_id, token |-> token,
                      expires_at |-> expires_at(claims)],
         kid |-> PaserkId(k), pk |-> PaserkPk(k)]

\* ------------------------------------------------------------------- store
EmptyDb == [users |-> {}, adhoc_tokens |-> {}, session_tokens |-> {},
            lobby |-> {}, games |-> {}]

SessionRow(db, kid) == {r \in db.session_tokens : r.id = kid}

\* insert into session_tokens (id, public_key, expires_at) values (?, ?, ?)
SessionInsertReplacesAll(db, kid, pk, exp) ==
    [ok |-> TRUE,
     db |-> [db EXCEPT !.session_tokens =
               {[id |-> kid, public_key |-> pk, expires_at |-> exp]}]]

SessionInsertNothing(db, kid, pk, exp) == [ok |-> TRUE, db |-> db]

SessionInsert(db, kid, pk, exp) ==
    IF SessionRow(db, kid) # {}
    THEN [ok |-> FALSE, db |-> db]
    ELSE [ok |-> TRUE,
          db |-> [db EXCEPT !.session_tokens =
                    @ \cup {[id |-> kid, public_key |-> pk, expires_at |-> exp]}]]

\* update session_tokens set id = ?, public_key = ?, expires_at = ? where id = ?
SessionUpdateAlsoKeepsOld(db, prev_kid, kid, pk, exp) ==
    [rows |-> Cardinality(SessionRow(db, prev_kid)),
     db |-> IF SessionRow(db, prev_kid) = {} THEN db
            ELSE [db EXCEPT !.session_tokens =
                    @ \cup {[id |-> kid, public_key |-> pk, expires_at |-> exp]}]]

SessionUpdate(db, prev_kid, kid, pk, exp) ==
    [rows |-> Cardinality(SessionRow(db, prev_kid)),
     db |-> IF SessionRow(db, prev_kid) = {} THEN db
            ELSE [db EXCEPT !.session_tokens =
                    (@ \ SessionRow(db, prev_kid))
                    \cup {[id |-> kid, public_key |-> pk, expires_at |-> exp]}]]

\* delete from session_tokens where id = ?
SessionDeleteNothing(db, kid) == db

SessionDeleteAll(db, kid) == [db EXCEPT !.session_tokens = {}]

SessionDelete(db, kid) ==
    [db EXCEPT !.session_tokens = @ \ SessionRow(db, kid)]

\* delete from session_tokens where expires_at < ?
SessionSweepAll(db, t) == [db EXCEPT !.session_tokens = {}]

SessionSweep(db, t) ==
    [db EXCEPT !.session_tokens = {r \in @ : ~(r.expires_at < t)}]

\* pasetors public::verify with default ClaimsValidationRules: the signature
\* must be made by the key pair of the stored public key and exp not passed
PublicVerifySignatureOnly(pk, token, t) == token.sig = pk

PublicVerifyExpiryOnly(pk, token, t) == ~(t > expires_at(token.claims))

PublicVerify(pk, token, t) == token.sig = pk /\ ~(t > expires_at(token.claims))

SessionAuthenticateWithoutStore(db, token, t) ==
    IF token.fmt # "v4.public" THEN [ok |-> FALSE, err |-> "InvalidTokenFormat"]
    ELSE IF ~PublicVerify(token.sig, token, t)
    THEN [ok |-> FALSE, err |-> "InvalidSignature"]
    ELSE [ok |-> TRUE,
          session |-> [user_id |-> token.claims.iss, token |-> token,
                       expires_at |-> expires_at(token.claims)]]

\* Session::authenticate
SessionAuthenticate(db, token, t) ==
    IF token.fmt # "v4.public" THEN [ok |-> FALSE, err |-> "InvalidTokenFormat"]
    ELSE IF SessionRow(db, token.kid) = {}
    THEN [ok |-> FALSE, err |-> "NonExistingToken"]
    ELSE LET row == CHOOSE r \in SessionRow(db, token.kid) : TRUE
         IN  IF ~PublicVerify(row.public_key, token, t)
             THEN [ok |-> FALSE, err |-> "InvalidSignature"]
             ELSE [ok |-> TRUE,
                   session |-> [user_id |-> token.claims.iss, token |-> token,
                                expires_at |-> expires_at(token.claims)]]

Verifies(db, token, t) == SessionAuthenticate(db, token, t).ok

\* ------------------------------------------------------- ad-hoc credentials
USER_TOKEN_APP_SECRET == "AsyncDeckbuilderAppTokenSecret"

Base64(x) == <<"b64", x>>
Sha3_256(data) == <<"sha3", data>>

\* UserToken::generate: the stored part and the token part handed out
UserTokenGenerateSignsSecretOnly(user_id, secret, token) ==
    [user_token |-> [user_id |-> user_id, secret |-> secret,
                     signature |-> Sha3_256(<<USER_TOKEN_APP_SECRET,
                                              Base64(secret), Base64(token)>>)],
     token |-> Base64(token)]

UserTokenGenerate(user_id, secret, token) ==
    [user_token |-> [user_id |-> user_id, secret |-> secret,
                     signature |-> Sha3_256(<<USER_TOKEN_APP_SECRET, user_id,
                                              Base64(secret), Base64(token)>>)],
     token |-> Base64(token)]

\* UserToken::verify
UserTokenVerifyAnything(row, token) == TRUE

UserTokenVerify(row, token) ==
    Sha3_256(<<USER_TOKEN_APP_SECRET, row.user_id, Base64(row.secret), token>>)
        = row.signature

AdHocRow(db, token_id) == {r \in db.adhoc_tokens : r.id = token_id}

\* the "{token_id}.{token}" string; dot = FALSE is a string without '.'
AdHocString(token_id, token) == [dot |-> TRUE, id |-> Base64(token_id), token |-> token]
JunkAdHoc == [dot |-> FALSE]

\* AdHocToken::authenticate
AdHocAuthenticateByIdOnly(db, tok) ==
    IF ~tok.dot THEN [ok |-> FALSE, err |-> "InvalidTokenFormat"]
    ELSE IF AdHocRow(db, tok.id[2]) = {}
    THEN [ok |-> FALSE, err |-> "NonExistingToken"]
    ELSE [ok |-> TRUE,
          user_id |-> (CHOOSE r \in AdHocRow(db, tok.id[2]) : TRUE).user_id]

AdHocAuthenticate(db, tok) ==
    IF ~tok.dot THEN [ok |-> FALSE, err |-> "InvalidTokenFormat"]
    ELSE IF AdHocRow(db, tok.id[2]) = {}
    THEN [ok |-> FALSE, err |-> "NonExistingToken"]
    ELSE LET row == CHOOSE r \in AdHocRow(db, tok.id[2]) : TRUE
         IN  IF UserTokenVerify(row, tok.token)
             THEN [ok |-> TRUE, user_id |-> row.user_id]
             ELSE [ok |-> FALSE, err |-> "SignatureMismatch"]

\* ------------------------------------------------------------------- state
VARIABLES
    calls,      \* lobby calls made so far
    committed,  \* the committed database
    journal,    \* "wal": readers do not block a writer; "rollback": they do
    maxConn,    \* max_connections of the pool
    now,        \* wall clock, minutes
    nextKey,    \* key pairs generated so far
    task,       \* per task: the request or call in progress and its transaction
    issued,     \* sessions handed to callers and clients so far
    credentials,\* ad-hoc credential strings handed out so far
    refreshed,  \* <<old token, new token>> of every refresh that returned Ok
    revoked,    \* tokens whose refresh or expiry has been committed
    closed,     \* tokens of live sessions that a successful DELETE /session carried
    last        \* the call or request step that completed in the last step

vars == <<calls, committed, journal, maxConn, now, nextKey, task, issued,
          credentials, refreshed, revoked, closed, last>>

NoTx == [state |-> "none", db |-> EmptyDb, stale |-> FALSE]

IdleTask == [pc |-> "idle", call |-> None, endpoint |-> "", header |-> None,
             user_id |-> None,
             session |-> None, new_session_token |-> None,
             refreshed_from |-> None, status |-> 0, tx |-> NoTx]

NoOp == [op |-> "none"]

\* ------------------------------------------------------ pool and locking
ConnectionsInUse == Cardinality({t \in Task : task[t].tx.state # "none"})
FreeConnection == ConnectionsInUse < maxConn

WriterOtherThan(t) == \E u \in Task : u # t /\ task[u].tx.state = "write"
ReaderOtherThan(t) == \E u \in Task : u # t /\ task[u].tx.state = "read"

\* a statement run on the pool itself: own connection, own transaction
PoolCanRead == FreeConnection
PoolCanWrite ==
    /\ FreeConnection
    /\ ~WriterOtherThan(Pool)
    /\ journal = "wal" \/ ~ReaderOtherThan(Pool)

\* statements inside the transaction of task t
TxView(t) == IF task[t].tx.state = "open" THEN committed ELSE task[t].tx.db
TxCanWrite(t) == ~WriterOtherThan(t) /\ ~task[t].tx.stale
TxCanCommit(t) ==
    task[t].tx.state = "write" => (journal = "wal" \/ ~ReaderOtherThan(t))

TxAfterRead(t) ==
    IF task[t].tx.state = "open"
    THEN [state |-> "read", db |-> committed, stale |-> FALSE]
    ELSE task[t].tx
TxAfterWrite(t, db) == [state |-> "write", db |-> db, stale |-> FALSE]

\* a commit makes the snapshot of every other open reader stale
Outdated(tk, t) ==
    [u \in Task |->
        IF u # t /\ tk[u].tx.state = "read"
        THEN [tk[u] EXCEPT !.tx.stale = TRUE] ELSE tk[u]]

\* the workers are interchangeable: the lowest idle one takes the next request
Idle(t) == task[t].pc = "idle" /\ \A u \in Task : u < t => task[u].pc # "idle"

\* every database a request or call can currently read
Views == {committed} \cup {task[t].tx.db : t \in {u \in Task : task[u].tx.state \in {"read", "write"}}}

\* -------------------------------------------------------------------- Init
Init ==
    /\ committed = EmptyDb
    /\ journal \in {"wal", "rollback"}
    /\ maxConn \in {TestMaxConnections, DefaultMaxConnections}
    /\ now = 0
    /\ calls = 0
    /\ nextKey = 0
    /\ task = [t \in Task |-> IdleTask]
    /\ issued = {}
    /\ credentials = {}
    /\ refreshed = {}
    /\ revoked = {}
    /\ closed = {}
    /\ last = NoOp

\* the clock advances
Tick ==
    /\ \E i \in Instants : i > now /\ now' = i
    /\ last' = NoOp
    /\ UNCHANGED <<calls, committed, journal, maxConn, nextKey, task, issued,
                   credentials, refreshed, revoked, closed>>

\* ------------------------------------------- calls made directly on the pool
UserRow(db, user_id) == {r \in db.users : r.id = user_id}

\* insert into users(id, nickname) values (?, ?); id is the primary key
UsersInsert(db, user_id, nickname) ==
    IF UserRow(db, user_id) # {} THEN [ok |-> FALSE, db |-> db]
    ELSE [ok |-> TRUE,
          db |-> [db EXCEPT !.users = @ \cup {[id |-> user_id, nickname |-> nickname]}]]

\* User::fetch: select nickname from users where id = ?
UserFetchAnyRow(db, user_id) ==
    IF db.users = {} THEN None
    ELSE Some([nickname |-> (CHOOSE r \in db.users : TRUE).nickname])

UserFetch(db, user_id) ==
    IF UserRow(db, user_id) = {} THEN None
    ELSE Some([nickname |-> (CHOOSE r \in UserRow(db, user_id) : TRUE).nickname])

\* User::new(nickname).create(&pool), with the id that Uuid::new_v4() gives
\* drawn from ids
UserCreateDrawing(ids, nicknames) ==
    /\ Cardinality(committed.users) < MaxUsers
    /\ PoolCanWrite
    /\ \E nickname \in nicknames, user_id \in ids :
         LET res == UsersInsert(committed, user_id, nickname)
         IN  /\ committed' = res.db
             /\ last' = IF res.ok
                        THEN [op |-> "User::create", ok |-> TRUE,
                              user_id |-> user_id, nickname |-> nickname]
                        ELSE [op |-> "User::create", ok |-> FALSE, err |-> "Sqlx"]
             /\ task' = IF res.ok THEN Outdated(task, Pool) ELSE task
    /\ UNCHANGED <<calls, journal, maxConn, now, nextKey, issued, credentials,
                   refreshed, revoked, closed>>

\* User::create with a new_v4 id that no stored user has
UserCreate == UserCreateDrawing({Cardinality(committed.users) + 1}, {"user1"})

UserIds == {r.id : r \in committed.users}

\* AdHocToken::create
AdHocCreate ==
    /\ Cardinality(credentials) < MaxAdHoc
    /\ PoolCanWrite
    /\ \E user_id \in UserIds, token_id \in 1..MaxAdHoc :
         LET n == Cardinality(credentials) + 1
             gen == UserTokenGenerate(user_id, <<"secret", n>>, <<"token", n>>)
             row == [id |-> token_id, user_id |-> user_id,
                     secret |-> gen.user_token.secret,
                     signature |-> gen.user_token.signature]
         IN  IF AdHocRow(committed, token_id) # {}
             THEN /\ last' = [op |-> "AdHocToken::create", ok |-> FALSE,
                              err |-> "TokenIdCollision"]
                  /\ UNCHANGED <<calls, committed, credentials, task>>
             ELSE /\ committed' = [committed EXCEPT !.adhoc_tokens = @ \cup {row}]
                  /\ credentials' = credentials \cup
                        {[user_id |-> user_id,
                          token |-> AdHocString(token_id, gen.token)]}
                  /\ last' = [op |-> "AdHocToken::create", ok |-> TRUE]
                  /\ task' = Outdated(task, Pool)
    /\ UNCHANGED <<calls, journal, maxConn, now, nextKey, issued, refreshed, revoked, closed>>

\* Session::create(&pool, user_id)
SessionCreate ==
    /\ nextKey < MaxSessions
    /\ PoolCanWrite
    /\ \E user_id \in UserIds :
         LET new == SessionNew(user_id, nextKey + 1, now)
             ins == SessionInsert(committed, new.kid, new.pk, new.session.expires_at)
         IN  /\ ins.ok
             /\ committed' = ins.db
             /\ issued' = issued \cup {new.session}
             /\ last' = [op |-> "Session::create", session |-> new.session]
    /\ nextKey' = nextKey + 1
    /\ task' = Outdated(task, Pool)
    /\ UNCHANGED <<calls, journal, maxConn, now, credentials, refreshed, revoked, closed>>

\* Session::refresh(self, &pool): the result is Ok whatever rows_affected is
RefreshResult(session, upd) == [ok |-> TRUE, session |-> session]

SessionRefresh ==
    /\ nextKey < MaxSessions
    /\ PoolCanWrite
    /\ \E self \in issued :
         LET new == SessionNew(self.user_id, nextKey + 1, now)
             upd == SessionUpdate(committed, self.token.kid, new.kid, new.pk,
                                  new.session.expires_at)
             res == RefreshResult(new.session, upd)
         IN  /\ committed' = upd.db
             /\ issued' = IF res.ok THEN issued \cup {res.session} ELSE issued
             /\ refreshed' = IF res.ok
                             THEN refreshed \cup {<<self.token, res.session.token>>}
                             ELSE refreshed
             /\ revoked' = IF upd.rows = 1 THEN revoked \cup {self.token} ELSE revoked
             /\ last' = [op |-> "Session::refresh", self |-> self, result |-> res,
                         rows |-> upd.rows, by |-> Pool]
    /\ nextKey' = nextKey + 1
    /\ task' = Outdated(task, Pool)
    /\ UNCHANGED <<calls, journal, maxConn, now, credentials, closed>>

\* Session::expire(self, &pool)
SessionExpire ==
    /\ PoolCanWrite
    /\ \E self \in issued :
         /\ committed' = SessionDelete(committed, self.token.kid)
         /\ revoked' = revoked \cup {self.token}
         /\ last' = [op |-> "Session::expire", self |-> self,
                     rows |-> Cardinality(SessionRow(committed, self.token.kid)),
                     by |-> Pool]
    /\ task' = Outdated(task, Pool)
    /\ UNCHANGED <<calls, journal, maxConn, now, nextKey, issued, credentials,
                   refreshed, closed>>

\* Session::cleanup(&pool), Model::cleanup
SessionCleanup ==
    /\ PoolCanWrite
    /\ committed' = SessionSweep(committed, now)
    /\ last' = [op |-> "Session::cleanup"]
    /\ task' = Outdated(task, Pool)
    /\ UNCHANGED <<calls, journal, maxConn, now, nextKey, issued, credentials,
                   refreshed, revoked, closed>>

\* direct calls of the model API on the pool, as the unit tests make them
NextModel ==
    \/ Tick
    \/ UserCreate
    \/ SessionCreate
    \/ SessionRefresh
    \/ SessionExpire
    \/ SessionCleanup

Spec == Init /\ [][NextModel]_vars

\* the strings a client can present as an ad-hoc token: a credential handed
\* out earlier, the id part of one with the token part of another, a
\* well-formed string under any token_id, stored or not, and a string
\* without a dot
AdHocStrings ==
    {c.token : c \in credentials}
    \cup {[c.token EXCEPT !.token = d.token.token] : c, d \in credentials}
    \cup {AdHocString(token_id, Base64(<<"token", 1>>)) : token_id \in 1..(MaxAdHoc + 1)}
    \cup {JunkAdHoc}

\* AdHocToken::authenticate(&pool)
AdHocTokenAuthenticate ==
    /\ PoolCanRead
    /\ \E tok \in AdHocStrings :
         last' = [op |-> "AdHocToken::authenticate", token |-> tok,
                  result |-> AdHocAuthenticate(committed, tok)]
    /\ UNCHANGED <<calls, committed, journal, maxConn, now, nextKey, task, issued,
                   credentials, refreshed, revoked, closed>>

\* users are created and ad-hoc credentials issued and presented
NextAdHoc ==
    \/ UserCreate
    \/ AdHocCreate
    \/ AdHocTokenAuthenticate

SpecAdHoc == Init /\ [][NextAdHoc]_vars

\* the nicknames and the ids that new_v4 can give when users are created
Nicknames == {"user1", "user2"}
DrawnUserIds == 1..MaxUsers

\* User::new(nickname).create(&pool) where the id drawn may be a stored one
UserCreateAnyId == UserCreateDrawing(DrawnUserIds, Nicknames)

\* user_id.fetch(&pool), of an id that was returned or of one that never was
UserFetchCall ==
    /\ PoolCanRead
    /\ \E user_id \in 1..(MaxUsers + 1) :
         last' = [op |-> "User::fetch", user_id |-> user_id,
                  result |-> UserFetch(committed, user_id)]
    /\ UNCHANGED <<calls, committed, journal, maxConn, now, nextKey, task, issued,
                   credentials, refreshed, revoked, closed>>

\* users are created and fetched
NextUsers ==
    \/ UserCreateAnyId
    \/ UserFetchCall

SpecUsers == Init /\ [][NextUsers]_vars

\* SessionToken::authenticate(&pool) on a token handed out earlier or on a
\* string that is no PASETO token
SessionTokenAuthenticate ==
    /\ PoolCanRead
    /\ \E tok \in {s.token : s \in issued} \cup {JunkToken} :
         last' = [op |-> "SessionToken::authenticate", token |-> tok,
                  result |-> SessionAuthenticate(committed, tok, now)]
    /\ UNCHANGED <<calls, committed, journal, maxConn, now, nextKey, task, issued,
                   credentials, refreshed, revoked, closed>>

\* users are created, credentials and sessions issued to them and presented
NextAuth ==
    \/ UserCreate
    \/ AdHocCreate
    \/ SessionCreate
    \/ AdHocTokenAuthenticate
    \/ SessionTokenAuthenticate

SpecAuth == Init /\ [][NextAuth]_vars

\* ------------------------------------------------------------ HTTP requests
\* one ad-hoc user has been created (createAdhoc) before the requests start
FirstCredential == UserTokenGenerate(1, <<"secret", 1>>, <<"token", 1>>)

\* the session Session::create gave user 1 at time 0
FirstSession == SessionNew(1, 1, 0)

\* Authorization::from_str
ParseAuthorizationAnyCase(h) ==
    IF ~h.sp THEN [ok |-> FALSE, err |-> "InvalidAuthorization"]
    ELSE IF h.scheme \in {"AdHoc", "adhoc"}
    THEN [ok |-> TRUE, scheme |-> "AdHoc", token |-> h.token]
    ELSE IF h.scheme \in {"Session", "session"}
    THEN [ok |-> TRUE, scheme |-> "Session", token |-> h.token]
    ELSE [ok |-> FALSE, err |-> "InvalidAuthorizationScheme"]

ParseAuthorization(h) ==
    IF ~h.sp THEN [ok |-> FALSE, err |-> "InvalidAuthorization"]
    ELSE IF h.scheme \in {"AdHoc", "Session"}
    THEN [ok |-> TRUE, scheme |-> h.scheme, token |-> h.token]
    ELSE [ok |-> FALSE, err |-> "InvalidAuthorizationScheme"]

\* a token with the claims and the key id of another, signed with a key pair
\* of the sender's own
Forged(token) == [token EXCEPT !.sig = PaserkPk(0)]

\* Authorization header values a client can send
Headers ==
    {[sp |-> FALSE],
     [sp |-> TRUE, scheme |-> "Session", token |-> Forged(FirstSession.session.token)],
     [sp |-> TRUE, scheme |-> "session", token |-> FirstSession.session.token],
     [sp |-> TRUE, scheme |-> "AdHoc", token |-> JunkAdHoc],
     [sp |-> TRUE, scheme |-> "Session", token |-> JunkToken]}
    \cup {[sp |-> TRUE, scheme |-> "AdHoc", token |-> c.token] : c \in credentials}
    \cup {[sp |-> TRUE, scheme |-> "Session", token |-> s.token] : s \in issued}

IsSessionHeader(h) == h # None /\ Unwrap(h).sp /\ Unwrap(h).scheme = "Session"

Set(t, tk) == task' = [task EXCEPT ![t] = tk]

\* what the client gets back; the task is free for the next request
Response(tk, t, status) ==
    [op |-> "response", by |-> t, endpoint |-> tk.endpoint, header |-> tk.header,
     status |-> status, session |-> tk.session,
     refreshed_from |-> tk.refreshed_from,
     token |-> IF status = 401 THEN None ELSE tk.new_session_token]

\* the middleware returns Err(ErrorUnauthorized): the transaction is dropped
\* and rolled back, no X-Session-Token is sent
Unauthorized(t) ==
    /\ Set(t, IdleTask)
    /\ last' = Response(task[t], t, 401)

\* a client sends a request; it is taken while a key pair is left for it
Request(t) ==
    /\ Idle(t)
    /\ nextKey + Cardinality({u \in Task : task[u].pc # "idle"}) < MaxKeys
    /\ \E h \in {None} \cup {Some(x) : x \in Headers} :
         Set(t, [IdleTask EXCEPT !.pc = "begin", !.header = h])
    /\ last' = NoOp
    /\ UNCHANGED <<calls, committed, journal, maxConn, now, nextKey, issued,
                   credentials, refreshed, revoked, closed>>

\* middleware: db.begin()
MwBeginGivesGuestSession(t) ==
    /\ task[t].pc = "begin"
    /\ IF FreeConnection
       THEN /\ Set(t, [task[t] EXCEPT
                         !.pc = IF task[t].header = None THEN "create_session"
                                ELSE "auth",
                         !.user_id = IF task[t].header = None THEN Some(1) ELSE None,
                         !.tx = [NoTx EXCEPT !.state = "open"]])
            /\ last' = NoOp
       ELSE Unauthorized(t)
    /\ UNCHANGED <<calls, committed, journal, maxConn, now, nextKey, issued,
                   credentials, refreshed, revoked, closed>>

MwBegin(t) ==
    /\ task[t].pc = "begin"
    /\ IF FreeConnection
       THEN /\ Set(t, [task[t] EXCEPT
                         !.pc = IF task[t].header = None THEN "handler" ELSE "auth",
                         !.tx = [NoTx EXCEPT !.state = "open"]])
            /\ last' = NoOp
       ELSE Unauthorized(t)
    /\ UNCHANGED <<calls, committed, journal, maxConn, now, nextKey, issued,
                   credentials, refreshed, revoked, closed>>

\* session.expires_at < Utc::now() + Duration::minutes(10)
NearExpiryInclusive(session, t) == session.expires_at <= t + RefreshMinutes

NearExpiry(session, t) == session.expires_at < t + RefreshMinutes

\* middleware: parse the header and authenticate the token inside the transaction
MwAuthenticate(t) ==
    /\ task[t].pc = "auth"
    /\ LET parsed == ParseAuthorization(Unwrap(task[t].header))
           view == TxView(t)
       IN  IF ~parsed.ok THEN Unauthorized(t)
           ELSE IF parsed.scheme = "AdHoc"
           THEN LET res == AdHocAuthenticate(view, parsed.token)
                IN  IF res.ok
                    THEN /\ Set(t, [task[t] EXCEPT !.pc = "create_session",
                                      !.user_id = Some(res.user_id),
                                      !.tx = TxAfterRead(t)])
                         /\ last' = NoOp
                    ELSE Unauthorized(t)
           ELSE LET res == SessionAuthenticate(view, parsed.token, now)
                IN  IF res.ok
                    THEN /\ Set(t, [task[t] EXCEPT
                                      !.pc = IF NearExpiry(res.session, now)
                                             THEN "refresh" ELSE "handler",
                                      !.session = Some(res.session),
                                      !.tx = TxAfterRead(t)])
                         /\ last' = NoOp
                    ELSE Unauthorized(t)
    /\ UNCHANGED <<calls, committed, journal, maxConn, now, nextKey, issued,
                   credentials, refreshed, revoked, closed>>

\* middleware: user_id.create_session(&mut *tx)
MwCreateSession(t) ==
    /\ task[t].pc = "create_session"
    /\ LET new == SessionNew(Unwrap(task[t].user_id), nextKey + 1, now)
           ins == SessionInsert(TxView(t), new.kid, new.pk, new.session.expires_at)
       IN  IF TxCanWrite(t) /\ ins.ok
           THEN /\ Set(t, [task[t] EXCEPT !.pc = "handler",
                             !.session = Some(new.session),
                             !.new_session_token = Some(new.session.token),
                             !.tx = TxAfterWrite(t, ins.db)])
                /\ last' = NoOp
           ELSE Unauthorized(t)
    /\ nextKey' = nextKey + 1
    /\ UNCHANGED <<calls, committed, journal, maxConn, now, issued, credentials,
                   refreshed, revoked, closed>>

\* middleware: session.refresh(&mut *tx)
MwRefresh(t) ==
    /\ task[t].pc = "refresh"
    /\ LET self == Unwrap(task[t].session)
           new == SessionNew(self.user_id, nextKey + 1, now)
           upd == SessionUpdate(TxView(t), self.token.kid, new.kid, new.pk,
                                new.session.expires_at)
           res == RefreshResult(new.session, upd)
       IN  IF TxCanWrite(t) /\ res.ok
           THEN /\ Set(t, [task[t] EXCEPT !.pc = "handler",
                             !.session = Some(res.session),
                             !.new_session_token = Some(res.session.token),
                             !.refreshed_from = Some(self.token),
                             !.tx = TxAfterWrite(t, upd.db)])
                /\ refreshed' = refreshed \cup {<<self.token, res.session.token>>}
                /\ last' = [op |-> "Session::refresh", self |-> self,
                            result |-> res, rows |-> upd.rows, by |-> t]
           ELSE /\ Unauthorized(t)
                /\ UNCHANGED refreshed
    /\ nextKey' = nextKey + 1
    /\ UNCHANGED <<calls, committed, journal, maxConn, now, issued, credentials,
                   revoked, closed>>

\* GET /refresh: the handler does nothing
refresh(t) ==
    /\ task[t].pc = "handler"
    /\ Set(t, [task[t] EXCEPT !.pc = "commit", !.endpoint = "/refresh",
                              !.status = 200])
    /\ last' = NoOp
    /\ UNCHANGED <<calls, committed, journal, maxConn, now, nextKey, issued,
                   credentials, refreshed, revoked, closed>>

\* DELETE /session: session.expire(model.db()) runs on the pool, not on the
\* transaction of the middleware
expire_session(t) ==
    /\ task[t].pc = "handler"
    /\ IF task[t].session = None
       THEN /\ Set(t, [task[t] EXCEPT !.pc = "commit", !.endpoint = "/session",
                                      !.status = 200])
            /\ last' = NoOp
            /\ UNCHANGED <<calls, committed, revoked>>
       ELSE LET self == Unwrap(task[t].session)
            IN  IF PoolCanWrite
                THEN /\ committed' = SessionDelete(committed, self.token.kid)
                     /\ revoked' = revoked \cup {self.token}
                     /\ task' = [Outdated(task, Pool) EXCEPT
                                   ![t].pc = "commit",
                                   ![t].endpoint = "/session",
                                   ![t].status = 200]
                     /\ last' = [op |-> "Session::expire", self |-> self,
                                 rows |-> Cardinality(SessionRow(committed, self.token.kid)),
                                 by |-> Pool]
                ELSE /\ Set(t, [task[t] EXCEPT !.pc = "commit",
                                  !.endpoint = "/session", !.status = 500])
                     /\ last' = NoOp
                     /\ UNCHANGED <<calls, committed, revoked>>
    /\ UNCHANGED <<calls, journal, maxConn, now, nextKey, issued, credentials,
                   refreshed, closed>>

\* middleware: X-Session-Token on the response, then tx.commit()
MwCommit(t) ==
    /\ task[t].pc = "commit"
    /\ IF TxCanCommit(t)
       THEN /\ committed' = IF task[t].tx.state = "write" THEN task[t].tx.db
                            ELSE committed
            /\ task' = [(IF task[t].tx.state = "write" THEN Outdated(task, t) ELSE task)
                          EXCEPT ![t] = IdleTask]
            /\ issued' = IF task[t].new_session_token = None THEN issued
                         ELSE issued \cup {Unwrap(task[t].session)}
            /\ revoked' = IF task[t].refreshed_from = None THEN revoked
                          ELSE revoked \cup {Unwrap(task[t].refreshed_from)}
            /\ closed' = IF /\ task[t].endpoint = "/session"
                            /\ task[t].status = 200
                            /\ IsSessionHeader(task[t].header)
                            /\ task[t].refreshed_from = None
                         THEN closed \cup {Unwrap(task[t].header).token}
                         ELSE closed
            /\ last' = Response(task[t], t, task[t].status)
       ELSE /\ Unauthorized(t)
            /\ UNCHANGED <<calls, committed, issued, revoked, closed>>
    /\ UNCHANGED <<calls, journal, maxConn, now, nextKey, credentials, refreshed>>

\* the session middleware around one request
middleware(t) ==
    \/ MwBegin(t)
    \/ MwAuthenticate(t)
    \/ MwCreateSession(t)
    \/ MwRefresh(t)
    \/ refresh(t)
    \/ expire_session(t)
    \/ MwCommit(t)

\* user 1 is registered and holds an ad-hoc credential and a session
InitHttp ==
    /\ committed = [EmptyDb EXCEPT
                      !.users = {[id |-> 1, nickname |-> "user1"]},
                      !.adhoc_tokens = {[id |-> 1, user_id |-> 1,
                                         secret |-> FirstCredential.user_token.secret,
                                         signature |-> FirstCredential.user_token.signature]},
                      !.session_tokens = {[id |-> FirstSession.kid,
                                           public_key |-> FirstSession.pk,
                                           expires_at |-> FirstSession.session.expires_at]}]
    /\ credentials = {[user_id |-> 1, token |-> AdHocString(1, FirstCredential.token)]}
    /\ journal \in {"wal", "rollback"}
    /\ maxConn \in {TestMaxConnections, DefaultMaxConnections}
    /\ now = 0
    /\ calls = 0
    /\ nextKey = 1
    /\ task = [t \in Task |-> IdleTask]
    /\ issued = {FirstSession.session}
    /\ refreshed = {}
    /\ revoked = {}
    /\ closed = {}
    /\ last = NoOp

NextHttp ==
    \/ Tick
    \/ SessionCleanup
    \/ \E t \in Task : Request(t)
    \/ \E t \in Task : middleware(t)

SpecHttp == InitHttp /\ [][NextHttp]_vars

\* -------------------------------------------------------------------- lobby
LobbyRow(db, id) == {r \in db.lobby : r.id = id}
GamesRow(db, id) == {r \in db.games : r.id = id}

\* insert into lobby(id, created_by) values (?, ?)
LobbyInsertSeatsCreator(db, id, created_by) ==
    [db EXCEPT !.lobby = @ \cup {[id |-> id, created_by |-> created_by,
                                  player1 |-> Some(created_by), player2 |-> None]}]

LobbyInsert(db, id, created_by) ==
    [db EXCEPT !.lobby = @ \cup {[id |-> id, created_by |-> created_by,
                                  player1 |-> None, player2 |-> None]}]

\* LobbyGame::fetch
LobbyFetchAnyRow(db, id) ==
    IF db.lobby = {} THEN None
    ELSE IF LobbyRow(db, id) # {} THEN Some(CHOOSE r \in LobbyRow(db, id) : TRUE)
    ELSE Some(CHOOSE r \in db.lobby : TRUE)

LobbyFetch(db, id) ==
    IF LobbyRow(db, id) = {} THEN None
    ELSE Some(CHOOSE r \in LobbyRow(db, id) : TRUE)

\* Game::fetch
GameFetch(db, id) ==
    IF GamesRow(db, id) = {} THEN None
    ELSE Some(CHOOSE r \in GamesRow(db, id) : TRUE)

\* update lobby set player1 = ?, player2 = ? where id = ?
LobbyUpdateTakesOver(db, game) ==
    [db EXCEPT !.lobby =
        {IF r.id = game.id
         THEN [r EXCEPT !.player1 = game.player1, !.player2 = game.player2,
                        !.created_by = Unwrap(game.player1)]
         ELSE r : r \in @}]

LobbyUpdate(db, game) ==
    [db EXCEPT !.lobby =
        {IF r.id = game.id
         THEN [r EXCEPT !.player1 = game.player1, !.player2 = game.player2]
         ELSE r : r \in @}]

\* schema of games: id is the primary key, player1 and player2 are not null
GamesAccepts(db, row) ==
    /\ GamesRow(db, row.id) = {}
    /\ row.player1 # None
    /\ row.player2 # None

\* insert into games (id, created_by, player1, player2)
\*   select id, created_by, player1, player2 from lobby where id = ?
GamesInsertFromLobbySwapsSeats(db, id) ==
    LET rows == {[r EXCEPT !.player1 = r.player2, !.player2 = r.player1] :
                    r \in LobbyRow(db, id)}
    IN  IF \A r \in rows : GamesAccepts(db, r)
        THEN [ok |-> TRUE, rows |-> Cardinality(rows),
              db |-> [db EXCEPT !.games = @ \cup rows]]
        ELSE [ok |-> FALSE, rows |-> 0, db |-> db]

GamesInsertFromLobbyFillsSeats(db, id) ==
    LET rows == {[r EXCEPT !.player1 = IF @ = None THEN Some(r.created_by) ELSE @,
                           !.player2 = IF @ = None THEN Some(r.created_by) ELSE @] :
                    r \in LobbyRow(db, id)}
    IN  IF \A r \in rows : GamesAccepts(db, r)
        THEN [ok |-> TRUE, rows |-> Cardinality(rows),
              db |-> [db EXCEPT !.games = @ \cup rows]]
        ELSE [ok |-> FALSE, rows |-> 0, db |-> db]

GamesInsertFromLobby(db, id) ==
    LET rows == LobbyRow(db, id)
    IN  IF \A r \in rows : GamesAccepts(db, r)
        THEN [ok |-> TRUE, rows |-> Cardinality(rows),
              db |-> [db EXCEPT !.games = @ \cup rows]]
        ELSE [ok |-> FALSE, rows |-> 0, db |-> db]

\* delete from lobby where id = ?
LobbyDeleteNothing(db, id) ==
    [rows |-> Cardinality(LobbyRow(db, id)), db |-> db]

LobbyDeleteAnother(db, id) ==
    LET rows == IF \E r \in db.lobby : r.id # id
                THEN {CHOOSE r \in db.lobby : r.id # id}
                ELSE LobbyRow(db, id)
    IN  [rows |-> Cardinality(rows), db |-> [db EXCEPT !.lobby = @ \ rows]]

LobbyDelete(db, id) ==
    [rows |-> Cardinality(LobbyRow(db, id)),
     db |-> [db EXCEPT !.lobby = @ \ LobbyRow(db, id)]]

\* ensure!(x.rows_affected() == 1, Error::CannotStartGame(id))
OneRowOrNone(rows) == rows <= 1

NoRow(rows) == rows = 0

OneRow(rows) == rows = 1

GameIds == 1..MaxGames

\* ctx.data_opt::<Session>(): the session the middleware attached, if any; the
\* callers are the users 1..MaxPlayers
Sessions == {None} \cup {Some(user_id) : user_id \in UserIds \cap 1..MaxPlayers}

\* let session: &Session = ctx.data_opt().ok_or("Unauthorized")?
SessionDefaulted(session) ==
    [ok |-> TRUE, user_id |-> IF session = None THEN 1 ELSE Unwrap(session)]

SessionRequired(session) ==
    IF session = None THEN [ok |-> FALSE, user_id |-> 0]
    ELSE [ok |-> TRUE, user_id |-> Unwrap(session)]

\* join_game: the seat the caller takes in the fetched game
TakeSeatAlwaysFirst(game, user_id) ==
    IF game.player1 = None \/ game.player2 = None
    THEN [ok |-> TRUE, game |-> [game EXCEPT !.player1 = Some(user_id)]]
    ELSE [ok |-> FALSE, game |-> game]

TakeSeatSecondFirst(game, user_id) ==
    IF game.player2 = None
    THEN [ok |-> TRUE, game |-> [game EXCEPT !.player2 = Some(user_id)]]
    ELSE IF game.player1 = None
    THEN [ok |-> TRUE, game |-> [game EXCEPT !.player1 = Some(user_id)]]
    ELSE [ok |-> FALSE, game |-> game]

TakeSeatOncePerUser(game, user_id) ==
    IF game.player1 = None
    THEN [ok |-> TRUE, game |-> [game EXCEPT !.player1 = Some(user_id)]]
    ELSE IF game.player2 = None /\ game.player1 # Some(user_id)
    THEN [ok |-> TRUE, game |-> [game EXCEPT !.player2 = Some(user_id)]]
    ELSE [ok |-> FALSE, game |-> game]

TakeSeat(game, user_id) ==
    IF game.player1 = None
    THEN [ok |-> TRUE, game |-> [game EXCEPT !.player1 = Some(user_id)]]
    ELSE IF game.player2 = None
    THEN [ok |-> TRUE, game |-> [game EXCEPT !.player2 = Some(user_id)]]
    ELSE [ok |-> FALSE, game |-> game]

Call(t, pc, c) ==
    task' = [task EXCEPT ![t] = [IdleTask EXCEPT !.pc = pc, !.call = Some(c)]]

\* the call of task t returns
Return(t, result) ==
    /\ task' = [task EXCEPT ![t] = IdleTask]
    /\ last' = result @@ Unwrap(task[t].call)

AuthUnchanged == UNCHANGED <<journal, maxConn, now, nextKey,
                             issued, credentials, refreshed, revoked, closed>>

\* create_game: the session is required, then LobbyGame::create(db, user_id)
create_game ==
    /\ calls < MaxCalls
    /\ calls' = calls + 1
    /\ Cardinality(committed.lobby) + Cardinality(committed.games) < MaxGames
    /\ PoolCanWrite
    /\ \E session \in Sessions :
         LET c == [op |-> "create_game", session |-> session]
             id == Cardinality(committed.lobby) + Cardinality(committed.games) + 1
             required == SessionRequired(session)
         IN  IF ~required.ok
             THEN /\ last' = [ok |-> FALSE, err |-> "Unauthorized"] @@ c
                  /\ UNCHANGED <<committed, task>>
             ELSE /\ committed' = LobbyInsert(committed, id, required.user_id)
                  /\ last' = [ok |-> TRUE, id |-> id, user_id |-> required.user_id] @@ c
                  /\ task' = Outdated(task, Pool)
    /\ AuthUnchanged

\* join_game: the session is required, then LobbyGame::fetch and the seat choice
JoinFetch(t) ==
    /\ Idle(t)
    /\ calls < MaxCalls
    /\ calls' = calls + 1
    /\ PoolCanRead
    /\ \E session \in Sessions, id \in GameIds :
         LET c == [op |-> "join_game", id |-> id, session |-> session,
                   seen |-> LobbyFetch(committed, id), game |-> None,
                   before |-> None]
             required == SessionRequired(session)
         IN  IF ~required.ok
             THEN /\ last' = [ok |-> FALSE, err |-> "Unauthorized"] @@ c
                  /\ UNCHANGED task
             ELSE IF c.seen = None
             THEN /\ last' = [ok |-> FALSE, err |-> "Game not found"] @@ c
                  /\ UNCHANGED task
             ELSE LET seat == TakeSeat(Unwrap(c.seen), required.user_id)
                  IN  IF seat.ok
                      THEN /\ Call(t, "join_update", [c EXCEPT !.game = Some(seat.game)])
                           /\ last' = NoOp
                      ELSE /\ last' = [ok |-> FALSE, err |-> "Game is full"] @@ c
                           /\ UNCHANGED task
    /\ UNCHANGED committed
    /\ AuthUnchanged

\* join_game: game.update(db); before is the row the update finds
JoinUpdate(t) ==
    /\ task[t].pc = "join_update"
    /\ PoolCanWrite
    /\ LET c == Unwrap(task[t].call)
       IN  /\ committed' = LobbyUpdate(committed, Unwrap(c.game))
           /\ last' = [ok |-> TRUE] @@ [c EXCEPT !.before = LobbyFetch(committed, c.id)]
    /\ task' = [Outdated(task, Pool) EXCEPT ![t] = IdleTask]
    /\ UNCHANGED calls
    /\ AuthUnchanged

\* GameInfo { created_by, players: [player1, player2] flattened }
GameInfo(game) ==
    IF game = None THEN None
    ELSE Some([created_by |-> Unwrap(game).created_by,
               players |-> Unwrap(game).player1 \o Unwrap(game).player2])

\* Query::lobby(id): no session is asked for
QueryLobby ==
    /\ calls < MaxCalls
    /\ calls' = calls + 1
    /\ PoolCanRead
    /\ \E session \in Sessions, id \in GameIds :
         last' = [op |-> "Query::lobby", ok |-> TRUE, id |-> id, session |-> session,
                  info |-> GameInfo(LobbyFetch(committed, id))]
    /\ UNCHANGED <<committed, task>>
    /\ AuthUnchanged

\* Query::game(id): no session is asked for
QueryGame ==
    /\ calls < MaxCalls
    /\ calls' = calls + 1
    /\ PoolCanRead
    /\ \E session \in Sessions, id \in GameIds :
         last' = [op |-> "Query::game", ok |-> TRUE, id |-> id, session |-> session,
                  info |-> GameInfo(GameFetch(committed, id))]
    /\ UNCHANGED <<committed, task>>
    /\ AuthUnchanged

\* Game::start(db, id) is entered: db.begin()
StartBegin(t, c) ==
    IF FreeConnection
    THEN /\ task' = [task EXCEPT ![t] = [IdleTask EXCEPT
                        !.pc = "start_insert", !.call = Some(c),
                        !.tx = [NoTx EXCEPT !.state = "open"]]]
         /\ last' = NoOp
    ELSE /\ last' = [ok |-> FALSE, err |-> "Sqlx"] @@ c
         /\ task' = [task EXCEPT ![t] = IdleTask]

\* Game::start called with the pool and an id
GameStart(t) ==
    /\ Idle(t)
    /\ calls < MaxCalls
    /\ calls' = calls + 1
    /\ \E id \in GameIds :
         StartBegin(t, [op |-> "Game::start", id |-> id, game |-> None,
                        absent |-> FALSE, empty_seat |-> FALSE, row |-> None])
    /\ UNCHANGED committed
    /\ AuthUnchanged

\* start_game(game_id): the session is required, then Game::start(db, game_id)
start_game(t) ==
    /\ Idle(t)
    /\ calls < MaxCalls
    /\ calls' = calls + 1
    /\ \E session \in Sessions, id \in GameIds :
         LET c == [op |-> "start_game", id |-> id, session |-> session,
                   game |-> None, absent |-> FALSE, empty_seat |-> FALSE,
                   row |-> None]
         IN  IF ~SessionRequired(session).ok
             THEN /\ last' = [ok |-> FALSE, err |-> "Unauthorized"] @@ c
                  /\ UNCHANGED task
             ELSE StartBegin(t, c)
    /\ UNCHANGED committed
    /\ AuthUnchanged

\* LobbyGame::start(self, db) on a game fetched from the lobby
LobbyGameStart(t) ==
    /\ IF task[t].pc = "fetched"
       THEN LET c == Unwrap(task[t].call)
                self == Unwrap(c.game)
            IN  IF self.player1 = None \/ self.player2 = None
                THEN /\ Return(t, [ok |-> FALSE, err |-> "MissingPlayer",
                                   empty_seat |-> \E r \in LobbyRow(committed, c.id) :
                                                     r.player1 = None \/ r.player2 = None])
                     /\ UNCHANGED calls
                ELSE /\ StartBegin(t, c)
                     /\ UNCHANGED calls
       ELSE /\ Idle(t)
            /\ calls < MaxCalls
            /\ calls' = calls + 1
            /\ PoolCanRead
            /\ \E id \in GameIds :
                 /\ LobbyFetch(committed, id) # None
                 /\ Call(t, "fetched",
                         [op |-> "LobbyGame::start", id |-> id,
                          game |-> LobbyFetch(committed, id),
                          absent |-> FALSE, empty_seat |-> FALSE, row |-> None])
            /\ last' = NoOp
    /\ UNCHANGED committed
    /\ AuthUnchanged

\* Game::start: the insert ... select statement and the check of its row count
StartInsert(t) ==
    /\ task[t].pc = "start_insert"
    /\ LET c == Unwrap(task[t].call)
           view == TxView(t)
           seen == [c EXCEPT !.row = LobbyFetch(view, c.id),
                             !.absent = LobbyFetch(view, c.id) = None,
                             !.empty_seat = \E r \in LobbyRow(view, c.id) :
                                               r.player1 = None \/ r.player2 = None]
           insert == GamesInsertFromLobby(view, c.id)
       IN  IF ~TxCanWrite(t) \/ ~insert.ok
           THEN /\ task' = [task EXCEPT ![t] = IdleTask]
                /\ last' = [ok |-> FALSE, err |-> "Sqlx"]
                            @@ (IF TxCanWrite(t) THEN seen ELSE c)
           ELSE IF ~OneRow(insert.rows)
           THEN /\ task' = [task EXCEPT ![t] = IdleTask]
                /\ last' = [ok |-> FALSE, err |-> "CannotStartGame"] @@ seen
           ELSE /\ task' = [task EXCEPT ![t].pc = "start_delete",
                                        ![t].call = Some(seen),
                                        ![t].tx = TxAfterWrite(t, insert.db)]
                /\ last' = NoOp
    /\ UNCHANGED <<calls, committed>>
    /\ UNCHANGED calls
    /\ AuthUnchanged

\* Game::start: the delete statement and the check of its row count
StartDelete(t) ==
    /\ task[t].pc = "start_delete"
    /\ LET c == Unwrap(task[t].call)
           delete == LobbyDelete(TxView(t), c.id)
       IN  IF ~OneRow(delete.rows)
           THEN /\ task' = [task EXCEPT ![t] = IdleTask]
                /\ last' = [ok |-> FALSE, err |-> "CannotStartGame"] @@ c
           ELSE /\ task' = [task EXCEPT ![t].pc = "start_commit",
                                        ![t].tx = TxAfterWrite(t, delete.db)]
                /\ last' = NoOp
    /\ UNCHANGED <<calls, committed>>
    /\ UNCHANGED calls
    /\ AuthUnchanged

\* Game::start: tx.commit()
StartCommit(t) ==
    /\ task[t].pc = "start_commit"
    /\ IF TxCanCommit(t)
       THEN /\ committed' = task[t].tx.db
            /\ task' = [Outdated(task, t) EXCEPT ![t] = IdleTask]
            /\ last' = [ok |-> TRUE, row |-> LobbyFetch(committed, Unwrap(task[t].call).id)]
                        @@ Unwrap(task[t].call)
       ELSE /\ task' = [task EXCEPT ![t] = IdleTask]
            /\ last' = [ok |-> FALSE, err |-> "Sqlx"] @@ Unwrap(task[t].call)
            /\ UNCHANGED committed
    /\ UNCHANGED calls
    /\ AuthUnchanged

\* the users are registered, the user after the callers has created a game and
\* the last caller has joined it
InitLobby ==
    /\ committed = [EmptyDb EXCEPT !.users =
                      {[id |-> u, nickname |-> "user1"] : u \in 1..MaxPlayers + 1},
                                  !.lobby = {[id |-> 1, created_by |-> MaxPlayers + 1,
                                              player1 |-> Some(MaxPlayers),
                                              player2 |-> None]}]
    /\ journal \in {"wal", "rollback"}
    /\ maxConn \in {TestMaxConnections, DefaultMaxConnections}
    /\ now = 0
    /\ calls = 0
    /\ nextKey = 0
    /\ task = [t \in Task |-> IdleTask]
    /\ issued = {}
    /\ credentials = {}
    /\ refreshed = {}
    /\ revoked = {}
    /\ closed = {}
    /\ last = NoOp

NextLobby ==
    \/ create_game
    \/ \E t \in Task : JoinFetch(t)
    \/ \E t \in Task : JoinUpdate(t)
    \/ QueryLobby
    \/ QueryGame
    \/ \E t \in Task : start_game(t)
    \/ \E t \in Task : GameStart(t)
    \/ \E t \in Task : LobbyGameStart(t)
    \/ \E t \in Task : StartInsert(t)
    \/ \E t \in Task : StartDelete(t)
    \/ \E t \in Task : StartCommit(t)

SpecLobby == InitLobby /\ [][NextLobby]_vars

\* ------------------------------------------------------------------ claims
\* the database a call made by `by` reads: the pool reads the committed state
ViewOf(by) == IF by = Pool THEN committed ELSE task[by].tx.db

\* C1: after Session::refresh of a stored session returned a new session,
\* authenticating the old token fails and authenticating the new token
\* succeeds and yields a session equal to the returned one.
PostRefresh ==
    (last.op = "Session::refresh" /\ last.rows = 1 /\ last.result.ok) =>
        /\ ~Verifies(ViewOf(last.by), last.self.token, now)
        /\ SessionAuthenticate(ViewOf(last.by), last.result.session.token, now)
             = [ok |-> TRUE, session |-> last.result.session]

PostRefreshWitness ==
    /\ last.op = "Session::refresh"
    /\ last.rows = 1
    /\ last.result.ok
    /\ last.self.expires_at >= now

\* C3: a token whose refresh or expiry has been committed never verifies
\* again, whatever calls follow.
RevokedNeverVerifies ==
    \A token \in revoked : ~Verifies(committed, token, now)

RevokedNeverVerifiesWitness ==
    /\ \E token \in revoked : expires_at(token.claims) >= now
    /\ last.op \in {"Session::create", "Session::cleanup"}

\* C4: Session::refresh of a session whose key row is not in the store fails
\* with NonExistingToken and hands out no session.
RefreshOfMissingRowFails ==
    (last.op = "Session::refresh" /\ last.rows = 0) =>
        /\ ~last.result.ok
        /\ last.result.err = "NonExistingToken"

\* C2: in no database state that any request can read are the token that
\* was refreshed and the token produced by that refresh both accepted.
OldAndNewNeverBothValid ==
    \A pair \in refreshed : \A view \in Views :
        ~(Verifies(view, pair[1], now) /\ Verifies(view, pair[2], now))

\* a committed refresh while another request presenting the old token is in flight
OldAndNewNeverBothValidWitness ==
    \E pair \in refreshed :
        /\ Verifies(committed, pair[2], now)
        /\ \E t \in Task :
             /\ task[t].pc # "idle"
             /\ IsSessionHeader(task[t].header)
             /\ Unwrap(task[t].header).token = pair[1]

\* C5: once DELETE /session carrying a live, not nearly expired session token
\* has returned success, every request that authenticates with that token
\* afterwards is answered 401.
ClosedSessionRejected ==
    [][\A t \in Task :
         (/\ task[t].pc = "auth"
          /\ IsSessionHeader(task[t].header)
          /\ Unwrap(task[t].header).token \in closed
          /\ task'[t] # task[t])
         => (last'.op = "response" /\ last'.by = t /\ last'.status = 401)]_vars

ClosedSessionRejectedWitness ==
    /\ last.op = "response"
    /\ last.status = 401
    /\ IsSessionHeader(last.header)
    /\ Unwrap(last.header).token \in closed
    /\ expires_at(Unwrap(last.header).token.claims) >= now

\* C6: DELETE /session expires the session attached to the request whenever
\* there is one, the sessions the middleware issued in the same request
\* included: when the middleware hands the response of the handler on, that
\* session (and the token sent in X-Session-Token, if any) no longer verifies.
DeleteExpiresAttachedSession ==
    (/\ last.op = "response"
     /\ last.endpoint = "/session"
     /\ last.status # 401
     /\ last.session # None) =>
        /\ ~Verifies(committed, Unwrap(last.session).token, now)
        /\ last.token # None => ~Verifies(committed, Unwrap(last.token), now)

StartOps == {"Game::start", "LobbyGame::start", "start_game"}

\* C7: no game id is at the same time a row of lobby and a row of games
LobbyAndGamesDisjoint ==
    {r.id : r \in committed.lobby} \cap {r.id : r \in committed.games} = {}

LobbyAndGamesDisjointWitness ==
    /\ committed.lobby # {}
    /\ committed.games # {}
    /\ last.op \in StartOps
    /\ last.ok

\* C8: after a start of g succeeded, fetching g from the lobby gives None and
\* fetching g from the ongoing games gives the row the lobby held when the
\* start committed: same id, created_by, player1 and player2
StartMovesLobbyRow ==
    (last.op \in StartOps /\ last.ok) =>
        /\ LobbyFetch(committed, last.id) = None
        /\ last.row # None
        /\ GameFetch(committed, last.id) = last.row

StartMovesLobbyRowWitness ==
    /\ last.op = "Game::start"
    /\ last.ok
    /\ last.row # None
    /\ Unwrap(last.row).player1 # Unwrap(last.row).player2
    /\ Unwrap(last.row).created_by # Unwrap(Unwrap(last.row).player1)

\* a step in which a start called by task t returns an error
StartFails(t) ==
    /\ task[t].pc \in {"idle", "fetched", "start_insert", "start_delete", "start_commit"}
    /\ task'[t].pc = "idle"
    /\ last'.op \in StartOps
    /\ ~last'.ok

\* C9: a start whose insert finds g absent from the lobby fails with
\* CannotStartGame, and a start that fails leaves lobby and games exactly as
\* they were
StartFailureChangesNothing ==
    /\ [](last.op \in StartOps /\ last.absent =>
            ~last.ok /\ last.err = "CannotStartGame")
    /\ [][\A t \in Task : StartFails(t) =>
            /\ committed'.lobby = committed.lobby
            /\ committed'.games = committed.games]_vars

\* a start of an already started game has just failed, its row is still in games
StartFailureChangesNothingWitness ==
    /\ last.op \in StartOps
    /\ last.absent
    /\ ~last.ok
    /\ GamesRow(committed, last.id) # {}

\* C10: every ongoing game has both players, and a start of a lobby game with
\* an empty seat fails, leaves the row in the lobby and makes no ongoing game
OngoingGamesHaveBothPlayers ==
    /\ \A r \in committed.games : r.player1 # None /\ r.player2 # None
    /\ (last.op \in StartOps /\ last.empty_seat) =>
          /\ ~last.ok
          /\ LobbyRow(committed, last.id) # {}
          /\ GamesRow(committed, last.id) = {}

OngoingGamesHaveBothPlayersWitness ==
    /\ last.op = "Game::start"
    /\ last.empty_seat
    /\ \E r \in LobbyRow(committed, last.id) : r.player1 # None /\ r.player2 = None

\* C11: a join that finds both seats of the game empty makes its caller
\* player1; a join that finds player1 seated and player2 empty makes its caller
\* player2 and leaves player1 as it was; a join that finds both seats taken
\* returns "Game is full" and leaves the lobby row unchanged
SeatOrdering ==
    /\ [](last.op = "join_game" /\ last.session # None /\ last.seen # None =>
            LET seen == Unwrap(last.seen)
                caller == last.session
                sequential == last.ok /\ last.before = last.seen
            IN  /\ (seen.player1 # None /\ seen.player2 # None) <=>
                        (~last.ok /\ last.err = "Game is full")
                /\ (sequential /\ seen.player1 = None /\ seen.player2 = None) =>
                        LobbyFetch(committed, last.id) =
                            Some([seen EXCEPT !.player1 = caller])
                /\ (sequential /\ seen.player1 # None /\ seen.player2 = None) =>
                        LobbyFetch(committed, last.id) =
                            Some([seen EXCEPT !.player2 = caller]))
    /\ [][last'.op = "join_game" /\ ~last'.ok => committed' = committed]_vars

\* a join of a game whose seats two different users hold has been refused
SeatOrderingWitness ==
    /\ last.op = "join_game"
    /\ ~last.ok
    /\ last.err = "Game is full"
    /\ Unwrap(last.seen).player1 # Unwrap(last.seen).player2
    /\ LobbyFetch(committed, last.id) = last.seen

\* C12: in every lobby row a filled player2 implies a filled player1, whatever
\* the order and interleaving of the joins
PlayerOneBeforePlayerTwo ==
    \A r \in committed.lobby : r.player2 # None => r.player1 # None

\* two joins of one game interleaved: the second update found a row other than
\* the one its join had fetched
PlayerOneBeforePlayerTwoWitness ==
    /\ last.op = "join_game"
    /\ last.ok
    /\ last.before # None
    /\ last.before # last.seen
    /\ \E r \in LobbyRow(committed, last.id) : r.player2 # None

\* C13: no step changes the created_by of a game id, in the lobby or in the
\* ongoing games, and the row create_game inserts has the user of the calling
\* session as created_by
CreatedByNeverChanges ==
    /\ [][\A r \in committed.lobby \cup committed.games :
            \A q \in committed'.lobby \cup committed'.games :
                q.id = r.id => q.created_by = r.created_by]_vars
    /\ [](last.op = "create_game" /\ last.ok =>
            /\ LobbyRow(committed, last.id) # {}
            /\ \A r \in LobbyRow(committed, last.id) :
                   Some(r.created_by) = last.session)

\* a game joined by users other than its creator has been started, and the
\* creator is still the created_by of the ongoing game
CreatedByNeverChangesWitness ==
    /\ last.op = "Game::start"
    /\ last.ok
    /\ \E r \in GamesRow(committed, last.id) :
          /\ r.created_by = MaxPlayers + 1
          /\ r.player1 # Some(r.created_by)
          /\ r.player2 # Some(r.created_by)

\* C14: create_game with a session succeeds; it adds to the lobby exactly one
\* row, with the session's user as created_by and both seats empty, under an
\* id no lobby or ongoing game has, and changes no other row of either table
CreateInsertsOneRow ==
    /\ [](last.op = "create_game" /\ last.session # None => last.ok)
    /\ [][last'.op = "create_game" /\ last'.ok =>
            /\ last'.id \notin {r.id : r \in committed.lobby \cup committed.games}
            /\ committed'.lobby = committed.lobby \cup
                  {[id |-> last'.id, created_by |-> Unwrap(last'.session),
                    player1 |-> None, player2 |-> None]}
            /\ committed'.games = committed.games]_vars

\* a game has been created while another, joined twice, is in the lobby
CreateInsertsOneRowWitness ==
    /\ last.op = "create_game"
    /\ last.ok
    /\ \E r \in committed.lobby :
          r.id # last.id /\ r.player1 # None /\ r.player2 # None

\* C15: a join_game of an id the lobby does not hold returns "Game not found"
\* at once, without going on to its update, and changes no table
JoinOfMissingGame ==
    /\ [][\A t \in Task :
            (task[t].pc = "idle" /\ task'[t].pc = "join_update") =>
                LobbyRow(committed, Unwrap(task'[t].call).id) # {}]_vars
    /\ [][(calls' # calls /\ last'.op = "join_game" /\ last'.session # None
            /\ LobbyRow(committed, last'.id) = {}) =>
                /\ ~last'.ok
                /\ last'.err = "Game not found"
                /\ committed' = committed]_vars

\* a join of a game that was started, so is ongoing and no longer in the lobby,
\* has been refused
JoinOfMissingGameWitness ==
    /\ last.op = "join_game"
    /\ ~last.ok
    /\ last.err = "Game not found"
    /\ GamesRow(committed, last.id) # {}

\* C16: a start_game called with a session, whose insert finds the game in the
\* lobby with both seats filled, succeeds, whoever the caller is
StartByAnyCaller ==
    (/\ last.op = "start_game"
     /\ last.session # None
     /\ last.row # None
     /\ Unwrap(last.row).player1 # None
     /\ Unwrap(last.row).player2 # None) => last.ok

\* a game has been started by a user who is neither its creator nor in a seat
StartByAnyCallerWitness ==
    /\ last.op = "start_game"
    /\ last.ok
    /\ \E r \in GamesRow(committed, last.id) :
          /\ last.session # Some(r.created_by)
          /\ last.session # r.player1
          /\ last.session # r.player2

\* C17: create_game and join_game called with no session return "Unauthorized"
\* and change neither the lobby nor the ongoing games; the queries of a lobby
\* game and of an ongoing game answer with the stored row without a session
SessionNeededToChangeLobby ==
    /\ [](last.op \in {"create_game", "join_game"} /\ last.session = None =>
            ~last.ok /\ last.err = "Unauthorized")
    /\ [][last'.op \in {"create_game", "join_game"} /\ last'.session = None =>
            committed' = committed]_vars
    /\ [](last.op = "Query::lobby" /\ last.session = None =>
            /\ last.ok
            /\ last.info = None <=> LobbyRow(committed, last.id) = {}
            /\ \A r \in LobbyRow(committed, last.id) :
                   Unwrap(last.info).created_by = r.created_by)
    /\ [](last.op = "Query::game" /\ last.session = None =>
            /\ last.ok
            /\ last.info = None <=> GamesRow(committed, last.id) = {}
            /\ \A r \in GamesRow(committed, last.id) :
                   Unwrap(last.info).created_by = r.created_by)

\* a join without a session of a game with a free seat has been refused and
\* the seat is still free
SessionNeededToChangeLobbyWitness ==
    /\ last.op = "join_game"
    /\ last.session = None
    /\ ~last.ok
    /\ \E r \in LobbyRow(committed, last.id) : r.player2 = None

\* C18: a join_game by the user who already is player1 of a game whose player2
\* is empty succeeds and makes the same user player2
SameUserTakesBothSeats ==
    (/\ last.op = "join_game"
     /\ last.session # None
     /\ last.seen # None
     /\ Unwrap(last.seen).player1 = last.session
     /\ Unwrap(last.seen).player2 = None) =>
        /\ last.ok
        /\ last.before = last.seen =>
              LobbyFetch(committed, last.id) =
                  Some([Unwrap(last.seen) EXCEPT !.player2 = last.session])

\* a lobby game has the same user in both seats after that user's second join
SameUserTakesBothSeatsWitness ==
    /\ last.op = "join_game"
    /\ last.ok
    /\ last.before = last.seen
    /\ \E r \in LobbyRow(committed, last.id) :
          r.player1 = last.session /\ r.player2 = last.session

\* C19: every ad-hoc credential ever issued authenticates, and to the user it
\* was issued for
AdHocRoundTrip ==
    \A c \in credentials :
        AdHocAuthenticate(committed, c.token) = [ok |-> TRUE, user_id |-> c.user_id]

\* two credentials of one user have been issued while another user with the
\* same nickname exists, and one of the two has just been presented
AdHocRoundTripWitness ==
    /\ last.op = "AdHocToken::authenticate"
    /\ last.result.ok
    /\ \E c, d \in credentials :
          /\ c # d
          /\ c.user_id = d.user_id
          /\ last.token = c.token
          /\ \E u, v \in committed.users :
                u.id = c.user_id /\ v.id # u.id /\ v.nickname = u.nickname

\* the sessions Session::create returned: issued, and not the result of a refresh
Created == {s \in issued : \A p \in refreshed : p[2] # s.token}

\* C20: a session Session::create returned, not refreshed or expired since and
\* not past its expiry (hence not swept), authenticates to the very session
\* that was returned: same user, same token, same expires_at
SessionRoundTrip ==
    \A s \in Created :
        (/\ \A p \in refreshed : p[1] # s.token
         /\ s.token \notin revoked
         /\ ~(now > s.expires_at)) =>
            SessionAuthenticate(committed, s.token, now) =
                [ok |-> TRUE, session |-> s]

\* two sessions of one user, created at different times, both still good
\* after the second was created
SessionRoundTripWitness ==
    /\ last.op = "Session::create"
    /\ \E s, r \in Created :
          /\ s.user_id = r.user_id
          /\ s.expires_at < r.expires_at
          /\ r = last.session
          /\ s.token \notin revoked
          /\ \A p \in refreshed : p[1] # s.token
          /\ ~(now > s.expires_at)
          /\ Cardinality(committed.users) > 1

\* C21: an ad-hoc string made of the id part of one credential and the token
\* part of another authenticates only as the user both were issued for, and a
\* session token, under its own or another session's key id, authenticates
\* only as the user it was issued for
Independence ==
    /\ \A c, d \in credentials :
          LET res == AdHocAuthenticate(committed,
                                       [c.token EXCEPT !.token = d.token.token])
          IN  res.ok => res.user_id = c.user_id /\ res.user_id = d.user_id
    /\ \A s, r \in issued :
          LET res == SessionAuthenticate(committed,
                                         [s.token EXCEPT !.kid = r.token.kid], now)
          IN  res.ok => res.session.user_id = s.user_id /\ r = s

\* two users each hold a credential and a session, and one of the tokens has
\* just authenticated
IndependenceWitness ==
    /\ last.op \in {"AdHocToken::authenticate", "SessionToken::authenticate"}
    /\ last.result.ok
    /\ \E c, d \in credentials : c.user_id # d.user_id
    /\ \E s, r \in issued : s.user_id # r.user_id

\* C22: a request without an Authorization header has no session attached at
\* any point, its response carries no X-Session-Token, and no step of the
\* request changes a session row
NoHeaderNoSession ==
    /\ [](\A t \in Task :
            (task[t].pc # "idle" /\ task[t].header = None) =>
                task[t].session = None /\ task[t].new_session_token = None)
    /\ [](last.op = "response" /\ last.header = None =>
            last.session = None /\ last.token = None)
    /\ [][\A t \in Task :
            (task[t].pc # "idle" /\ task[t].header = None
             /\ task'[t].pc # task[t].pc) =>
                committed'.session_tokens = committed.session_tokens]_vars

\* DELETE /session without a header has been answered with 200 and the stored
\* session is still there
NoHeaderNoSessionWitness ==
    /\ last.op = "response"
    /\ last.header = None
    /\ last.endpoint = "/session"
    /\ last.status = 200
    /\ committed.session_tokens # {}

\* the request of task t is answered with status 200 in this step
Answered(t) ==
    /\ task[t].pc = "commit"
    /\ last'.op = "response"
    /\ last'.by = t
    /\ last'.status = 200

IsAdHocHeader(h) == h # None /\ Unwrap(h).sp /\ Unwrap(h).scheme = "AdHoc"

\* C23: a request with a valid AdHoc credential that is answered with 200
\* returns in X-Session-Token a token no earlier response carried, which
\* (until its expiry) authenticates as the credential's user; the credential
\* still authenticates afterwards, and the sessions that were valid stay valid
AdHocRequestCreatesSession ==
    [][\A t \in Task :
        (Answered(t) /\ IsAdHocHeader(task[t].header)) =>
            LET credential == Unwrap(task[t].header).token
                user == AdHocAuthenticate(committed', credential)
            IN  /\ user.ok
                /\ last'.token # None
                /\ Unwrap(last'.token) \notin {s.token : s \in issued}
                /\ LET new == SessionAuthenticate(committed', Unwrap(last'.token), now)
                   IN  ~(now > expires_at(Unwrap(last'.token).claims)) =>
                          new.ok /\ new.session.user_id = user.user_id
                /\ \A s \in issued :
                      Verifies(committed, s.token, now) =>
                          Verifies(committed', s.token, now)]_vars

\* the credential has been presented a second time: the response carries a
\* third token for the user, and the two earlier ones are still valid
AdHocRequestCreatesSessionWitness ==
    /\ last.op = "response"
    /\ last.status = 200
    /\ IsAdHocHeader(last.header)
    /\ last.token # None
    /\ Cardinality({s \in issued : Verifies(committed, s.token, now)}) >= 3

\* C24: a request whose Session token authenticates goes on to a refresh
\* exactly if the token's expires_at < now + 10 minutes. The refresh is made
\* in the request's transaction: nothing is committed by it, the refreshed
\* session is the one attached and its token the one sent in X-Session-Token.
\* Without a refresh the presented session is attached, no X-Session-Token is
\* sent and no step of the middleware changes a session row
RefreshNearExpiry ==
    /\ [][\A t \in Task :
            (/\ task[t].pc = "auth"
             /\ IsSessionHeader(task[t].header)
             /\ task'[t].pc \in {"refresh", "handler"}) =>
                LET S == Unwrap(task[t].header).token
                IN  /\ task'[t].session # None
                    /\ Unwrap(task'[t].session).token = S
                    /\ task'[t].pc = "refresh" <=>
                          expires_at(S.claims) < now + RefreshMinutes]_vars
    /\ [][\A t \in Task :
            (task[t].pc = "refresh" /\ task'[t].pc = "handler") =>
                /\ committed' = committed
                /\ task'[t].new_session_token # None
                /\ Unwrap(task'[t].session).token = Unwrap(task'[t].new_session_token)
                /\ Unwrap(task'[t].session).token # Unwrap(task[t].header).token
                /\ Verifies(task'[t].tx.db, Unwrap(task'[t].session).token, now)]_vars
    /\ [](last.op = "response" /\ last.status # 401 /\ IsSessionHeader(last.header) =>
            IF last.refreshed_from = None
            THEN /\ last.token = None
                 /\ Unwrap(last.session).token = Unwrap(last.header).token
            ELSE /\ last.token = Some(Unwrap(last.session).token)
                 /\ last.refreshed_from = Some(Unwrap(last.header).token))
    /\ [][\A t \in Task :
            (/\ IsSessionHeader(task[t].header)
             /\ task[t].refreshed_from = None
             /\ task[t].pc \in {"begin", "auth", "commit"}
             /\ task'[t].pc # task[t].pc
             /\ task'[t].pc # "refresh") =>
                committed'.session_tokens = committed.session_tokens]_vars

\* a session presented less than ten minutes before its expiry has been
\* refreshed: the response carries the new token, which is valid, and the
\* presented one no longer is
RefreshNearExpiryWitness ==
    /\ last.op = "response"
    /\ last.status = 200
    /\ last.refreshed_from # None
    /\ last.token # None
    /\ Verifies(committed, Unwrap(last.token), now)
    /\ ~Verifies(committed, Unwrap(last.header).token, now)

\* headers that cannot authenticate at time t: no "scheme SP token" form, a
\* scheme that is not exactly AdHoc or Session, a credential that was never
\* handed out, a session token that is no token, was revoked or is past its exp
BadHeader(h, t) ==
    \/ ~h.sp
    \/ h.scheme \notin {"AdHoc", "Session"}
    \/ h.scheme = "AdHoc" /\ h.token \notin {c.token : c \in credentials}
    \/ /\ h.scheme = "Session"
       /\ \/ h.token \notin {s.token : s \in issued}
          \/ h.token \in revoked
          \/ t > expires_at(h.token.claims)

\* C25: when the middleware comes to authenticate a header that is malformed,
\* names another scheme or carries a token that does not verify, the request
\* is answered 401 in that step, without X-Session-Token, without the handler
\* having run, and with nothing committed
BadHeaderUnauthorized ==
    [][\A t \in Task :
        (/\ task[t].pc = "auth"
         /\ task'[t].pc # "auth"
         /\ BadHeader(Unwrap(task[t].header), now)) =>
            /\ task'[t] = IdleTask
            /\ last'.op = "response"
            /\ last'.by = t
            /\ last'.status = 401
            /\ last'.token = None
            /\ last'.session = None
            /\ last'.endpoint = ""
            /\ committed' = committed]_vars

\* a valid session token sent under the scheme "session" has been refused,
\* and its row is still stored
BadHeaderUnauthorizedWitness ==
    /\ last.op = "response"
    /\ last.status = 401
    /\ last.header # None
    /\ Unwrap(last.header).sp
    /\ Unwrap(last.header).scheme = "session"
    /\ Verifies(committed, Unwrap(last.header).token, now)

\* C26: while a request is being served, before its commit, no step of it
\* changes the committed database: its writes are in its transaction only
RequestWritesOnlyInItsTransaction ==
    [][\A t \in Task :
        (task[t].pc \in {"begin", "auth", "create_session", "refresh", "handler"}
         /\ task'[t].pc # task[t].pc) =>
            committed' = committed]_vars

\* the request of task t runs a statement on a connection of the pool
PoolStatementOf(t) ==
    /\ task[t].pc = "handler"
    /\ task'[t].pc = "commit"
    /\ last'.op = "Session::expire"
    /\ last'.by = Pool

\* the connections the request of task t holds during a step
ConnectionsOf(t) ==
    (IF task[t].tx.state # "none" THEN 1 ELSE 0)
        + (IF PoolStatementOf(t) THEN 1 ELSE 0)

\* C27: an in-flight request never holds more than one pooled connection
RequestHoldsOneConnection ==
    [][\A t \in Task : ConnectionsOf(t) <= 1]_vars

\* C28: a cleanup at time now, whatever requests are in flight, removes
\* exactly the session rows with expires_at < now and touches nothing else;
\* every session that verified before it verifies after it
CleanupRemovesOnlyExpired ==
    [][last'.op = "Session::cleanup" =>
        /\ committed'.session_tokens =
              {r \in committed.session_tokens : ~(r.expires_at < now)}
        /\ [committed' EXCEPT !.session_tokens = {}]
              = [committed EXCEPT !.session_tokens = {}]
        /\ \A s \in issued :
              Verifies(committed, s.token, now) => Verifies(committed', s.token, now)]_vars

\* a cleanup run while a request was in flight has removed the row of an
\* expired session and kept a session that is still valid
CleanupRemovesOnlyExpiredWitness ==
    /\ last.op = "Session::cleanup"
    /\ \E t \in Task : task[t].pc # "idle"
    /\ \E s \in issued :
          /\ now > s.expires_at
          /\ s.token \notin revoked
          /\ SessionRow(committed, s.token.kid) = {}
    /\ \E s \in issued : Verifies(committed, s.token, now)

\* C29: Session::expire removes the row of its own key id and nothing else;
\* when that row is already absent it changes nothing; every other session
\* that verified before still verifies
ExpireIdempotent ==
    [][last'.op = "Session::expire" =>
        LET kid == last'.self.token.kid
        IN  /\ committed'.session_tokens =
                  committed.session_tokens \ SessionRow(committed, kid)
            /\ [committed' EXCEPT !.session_tokens = {}]
                  = [committed EXCEPT !.session_tokens = {}]
            /\ last'.rows = 0 <=> SessionRow(committed, kid) = {}
            /\ last'.rows = 0 => committed' = committed
            /\ \A s \in issued :
                  (s.token.kid # kid /\ Verifies(committed, s.token, now)) =>
                      Verifies(committed', s.token, now)]_vars

\* a session has been expired a second time, with no row left to delete,
\* while another session is stored and valid
ExpireIdempotentWitness ==
    /\ last.op = "Session::expire"
    /\ last.rows = 0
    /\ last.self.token \in revoked
    /\ \E s \in issued : s # last.self /\ Verifies(committed, s.token, now)

\* the database with the session's row put back as Session::create wrote it
StoredAgain(db, s) ==
    IF SessionRow(db, s.token.kid) # {} THEN db
    ELSE SessionInsert(db, s.token.kid, s.token.sig, s.expires_at).db

\* C30: a session token whose exp claim lies in the past never verifies,
\* with its row stored or not, and a request that presents it under the
\* Session scheme is answered 401 in the step that authenticates it
ExpiredTokenNeverVerifies ==
    /\ [](\A s \in issued :
            now > expires_at(s.token.claims) =>
                /\ ~Verifies(committed, s.token, now)
                /\ ~Verifies(StoredAgain(committed, s), s.token, now)
                /\ ~Verifies(SessionDelete(committed, s.token.kid), s.token, now))
    /\ [][\A t \in Task :
            (/\ task[t].pc = "auth"
             /\ task'[t].pc # "auth"
             /\ IsSessionHeader(task[t].header)
             /\ Unwrap(task[t].header).token.fmt = "v4.public"
             /\ now > expires_at(Unwrap(task[t].header).token.claims)) =>
                /\ last'.op = "response"
                /\ last'.by = t
                /\ last'.status = 401
                /\ task'[t] = IdleTask]_vars

\* a request presenting an issued, never expired-by-call session token past
\* its exp has been answered 401 while the token's row is still stored
ExpiredTokenNeverVerifiesWitness ==
    /\ last.op = "response"
    /\ last.status = 401
    /\ IsSessionHeader(last.header)
    /\ \E s \in issued :
          /\ Unwrap(last.header).token = s.token
          /\ now > expires_at(s.token.claims)
          /\ s.token \notin revoked
          /\ SessionRow(committed, s.token.kid) # {}

\* C31: issuing an ad-hoc credential does not fail when the drawn token_id is
\* already stored: every AdHocToken::create call returns a credential, and a
\* conflicting insert leaves the stored rows as they are
IssuanceSurvivesCollision ==
    /\ [](last.op = "AdHocToken::create" => last.ok)
    /\ [][(last'.op = "AdHocToken::create" /\ ~last'.ok) =>
            committed' = committed]_vars

\* C32: AdHocToken::authenticate returns a user id only for a stored token_id
\* presented with the token part its row was generated with, and then the
\* row's user; a string without '.' fails with InvalidTokenFormat, an unknown
\* token_id with NonExistingToken, a known token_id with another token part
\* with a signature mismatch; the call changes no stored state
AdHocVerification ==
    [][last'.op = "AdHocToken::authenticate" =>
        LET tok == last'.token
            res == last'.result
            rows == IF tok.dot THEN AdHocRow(committed, tok.id[2]) ELSE {}
            issuedAs == {c \in credentials : tok.dot /\ c.token = tok}
        IN  /\ committed' = committed
            /\ credentials' = credentials
            /\ res.ok <=> (rows # {} /\ issuedAs # {})
            /\ res.ok => \A r \in rows : res.user_id = r.user_id
            /\ ~tok.dot => (~res.ok /\ res.err = "InvalidTokenFormat")
            /\ (tok.dot /\ rows = {}) =>
                  (~res.ok /\ res.err = "NonExistingToken")
            /\ (rows # {} /\ issuedAs = {}) =>
                  (~res.ok /\ res.err = "SignatureMismatch")]_vars

\* the id part of one stored credential has been presented with the token
\* part of another and was refused
AdHocVerificationWitness ==
    /\ last.op = "AdHocToken::authenticate"
    /\ ~last.result.ok
    /\ last.token.dot
    /\ AdHocRow(committed, last.token.id[2]) # {}
    /\ \E d \in credentials : d.token.token = last.token.token

\* C33: a create that returns an id returns one that no earlier user has, also
\* for a nickname already in use; fetch of that id then gives the nickname;
\* no step changes what fetch gives for an earlier user; an id is fetched as
\* Some only from the create that returned it on, so an id never returned
\* gives None; a create that returns no id stores nothing
UsersAppendOnly ==
    [][/\ \A id \in 1..(MaxUsers + 1) :
            /\ UserFetch(committed, id) # None =>
                  UserFetch(committed', id) = UserFetch(committed, id)
            /\ (UserFetch(committed, id) = None /\ UserFetch(committed', id) # None) =>
                  (last'.op = "User::create" /\ last'.ok /\ last'.user_id = id)
       /\ (last'.op = "User::create" /\ last'.ok) =>
            /\ UserFetch(committed, last'.user_id) = None
            /\ UserFetch(committed', last'.user_id)
                  = Some([nickname |-> last'.nickname])
            /\ Cardinality(committed'.users) = Cardinality(committed.users) + 1
       /\ (last'.op = "User::create" /\ ~last'.ok) => committed' = committed
       /\ last'.op = "User::fetch" =>
            /\ committed' = committed
            /\ last'.result = UserFetch(committed, last'.user_id)]_vars

\* a second user has been created under the nickname of the first, a create
\* that drew a stored id can have failed before, and fetch of an id never
\* returned has just given None
UsersAppendOnlyWitness ==
    /\ last.op = "User::fetch"
    /\ last.result = None
    /\ \E u, v \in committed.users : u.id # v.id /\ u.nickname = v.nickname

\* a create has drawn the id of a stored user and returned no id
UsersAppendOnlyCollisionWitness ==
    /\ last.op = "User::create"
    /\ ~last.ok
    /\ committed.users # {}

NoJoinLost ==
    [][(last'.op = "join_game" /\ last'.ok /\ last'.before # None) =>
        LET before == Unwrap(last'.before)
        IN  \A after \in LobbyRow(committed', last'.id) :
              /\ before.player1 # None => after.player1 = before.player1
              /\ before.player2 # None => after.player2 = before.player2]_vars

\* the rows of game id, in the lobby or among the started games
RowsOfGame(db, id) == LobbyRow(db, id) \cup GamesRow(db, id)

\* C36: a join_game that returns success has its caller seated in the lobby
\* row or in the started game, also when a start of the game runs in between
JoinReportsExistingSeat ==
    [][(last'.op = "join_game" /\ last'.ok) =>
        \E r \in RowsOfGame(committed', last'.id) :
            last'.session \in {r.player1, r.player2}]_vars

\* C36, second part: the row of a started game never changes
StartedGameNeverChanges ==
    [][\A g \in committed.games : g \in committed'.games]_vars

\* both seats of game id are filled, in the lobby or among the started games
BothSeatsFilled(db, id) ==
    /\ RowsOfGame(db, id) # {}
    /\ \A r \in RowsOfGame(db, id) : r.player1 # None /\ r.player2 # None

\* task u is inside Game::start of game id, between db.begin() and the commit
InStart(u, id) ==
    /\ task[u].pc \in {"start_insert", "start_delete", "start_commit"}
    /\ Unwrap(task[u].call).id = id

ConcurrentStartsLateWitness ==
    /\ last.op \in StartOps
    /\ ~last.ok
    /\ last.err = "CannotStartGame"
    /\ last.absent
    /\ GamesRow(committed, last.id) # {}

DeliveredTokenIsCommitted ==
    (last.op = "response" /\ last.token # None) =>
        \E r \in SessionRow(committed, Unwrap(last.token).kid) :
            /\ r.public_key = Unwrap(last.token).sig
            /\ r.expires_at = expires_at(Unwrap(last.token).claims)

\* C38: a response carries X-Session-Token only for a committed session row,
\* and when the handler fails or the commit fails the response carries no
\* X-Session-Token and the request leaves no row behind
HeaderOnlyWhenRequestSucceeds ==
    /\ [](last.op = "response" /\ last.token # None =>
            SessionRow(committed, Unwrap(last.token).kid) # {})
    /\ [][\A t \in Task :
            (/\ task[t].pc = "commit"
             /\ task'[t].pc # "commit"
             /\ (task[t].status = 500 \/ ~TxCanCommit(t))) =>
                /\ last'.op = "response"
                /\ last'.token = None
                /\ committed'.session_tokens = committed.session_tokens]_vars

\* C39: a row of session_tokens disappears from the store only in one of
\* three steps: the delete of a DELETE /session handler whose request
\* presented a token that verified against that row; a cleanup after the
\* row's expires_at; the commit of a request that presented a token verified
\* against the row and refreshed it, which puts the new row in its place. A
\* request whose token does not verify is answered 401 and changes no row
SessionRowRemoval ==
    /\ [][\A r \in committed.session_tokens :
            r \notin committed'.session_tokens =>
                \/ /\ last'.op = "Session::expire"
                   /\ last'.self.token.kid = r.id
                   /\ last'.self.token.sig = r.public_key
                   /\ \E t \in Task :
                         /\ task[t].pc = "handler"
                         /\ task'[t].endpoint = "/session"
                         /\ task[t].header = Some([sp |-> TRUE, scheme |-> "Session",
                                                    token |-> last'.self.token])
                \/ /\ last'.op = "Session::cleanup"
                   /\ r.expires_at < now
                \/ /\ last'.op = "response"
                   /\ last'.status # 401
                   /\ last'.refreshed_from # None
                   /\ Unwrap(last'.refreshed_from).kid = r.id
                   /\ Unwrap(last'.refreshed_from).sig = r.public_key
                   /\ last'.header = Some([sp |-> TRUE, scheme |-> "Session",
                                           token |-> Unwrap(last'.refreshed_from)])
                   /\ SessionRow(committed', Unwrap(last'.token).kid) # {}]_vars
    /\ [][\A t \in Task :
            (/\ task[t].pc = "auth"
             /\ task'[t].pc # "auth"
             /\ IsSessionHeader(task[t].header)
             /\ ~Verifies(TxView(t), Unwrap(task[t].header).token, now)) =>
                /\ last'.op = "response"
                /\ last'.status = 401
                /\ committed' = committed]_vars

\* a request presenting a forged token that carries the key id of a stored
\* session has been answered 401, and the row of that session is still stored
\* and its own token still verifies
SessionRowRemovalWitness ==
    /\ last.op = "response"
    /\ last.status = 401
    /\ last.header = Some([sp |-> TRUE, scheme |-> "Session",
                           token |-> Forged(FirstSession.session.token)])
    /\ SessionRow(committed, FirstSession.kid) # {}
    /\ Verifies(committed, FirstSession.session.token, now)

====
